---- MODULE Spec2Model ----
(***************************************************************************)
(* Piece table of the led editor (crates/led/src/led/piece_table.rs).      *)
(* A Table is a record with the fields of piece::Table; the private and    *)
(* public methods are operators from a Table (and arguments) to a result.  *)
(* Text is a sequence of one-byte characters; indices are zero-based as in *)
(* the source (at(v, i) is v[i]).                                          *)
(***************************************************************************)
EXTENDS Integers, Sequences, FiniteSets, TLC

\* ---------------------------------------------------------------- bounds
MaxOps == 3
MaxInitLen == 2
MaxTextLen == 1
\* editor: buffers created, commands executed
MaxBuffers == 2
MaxCmds == 4
\* typing: calls before the run of inserts, inserts of the run
MaxPrefix == 2
MaxRun == 4

\* ------------------------------------------------------------- alphabet
NL == "\n"
OrigChars == {"a", NL}
AddChars == {"b", NL}

SeqsUpTo(S, n) == UNION {[1..k -> S] : k \in 0..n}
InitTexts == SeqsUpTo(OrigChars, MaxInitLen)
InsertTexts == SeqsUpTo(AddChars, MaxTextLen)

\* usize::MAX, scaled to the largest integer of the checker
USIZE_MAX == 2147483647

\* ------------------------------------------------- Vec and str helpers
\* v[i], zero-based
at(v, i) == v[i + 1]
\* s[from..to]
slice(s, from, to) == SubSeq(s, from + 1, to)
\* Vec::insert(idx, x)
vec_insert(v, idx, x) == SubSeq(v, 1, idx) \o <<x>> \o SubSeq(v, idx + 1, Len(v))
\* Vec::remove(idx)
vec_remove(v, idx) == SubSeq(v, 1, idx) \o SubSeq(v, idx + 2, Len(v))
\* Vec::drain(from..to)
vec_drain(v, from, to) == SubSeq(v, 1, from) \o SubSeq(v, to + 1, Len(v))
\* v[idx] = x
vec_set(v, idx, x) == [v EXCEPT ![idx + 1] = x]

count_line_breaks(text) == Cardinality({i \in 1..Len(text) : text[i] = NL})

Piece(source, start, length, line_breaks) ==
    [source |-> source, start |-> start, length |-> length, line_breaks |-> line_breaks]

source_text(t, piece) == IF piece.source = "Original" THEN t.original ELSE t.add_buffer

\* ------------------------------------------------------------- caches
RECURSIVE rebuild_loop(_, _, _, _, _)
rebuild_loop(pieces, piece_idx, current_offset, current_line, line_cache) ==
    IF piece_idx >= Len(pieces) THEN line_cache
    ELSE LET piece == at(pieces, piece_idx)
             lc == IF current_line % 64 = 0
                   THEN Append(line_cache, [piece_idx |-> piece_idx, offset_in_piece |-> 0,
                                            abs_offset |-> current_offset,
                                            line_number |-> current_line])
                   ELSE line_cache
         IN rebuild_loop(pieces, piece_idx + 1, current_offset + piece.length,
                         current_line + piece.line_breaks, lc)

rebuild_caches(t) ==
    [t EXCEPT !.line_cache = rebuild_loop(t.pieces, 0, 0, 0, <<>>),
              !.line_cache_dirty = FALSE,
              !.char_cache_dirty_from = USIZE_MAX]

mark_caches_dirty_from(t, offset) ==
    [t EXCEPT !.line_cache_dirty = TRUE, !.char_cache_dirty_from = offset]

\* -------------------------------------------------------- construction
new(initial) ==
    LET line_breaks == count_line_breaks(initial)
        length == Len(initial)
    IN rebuild_caches([original |-> initial,
                       add_buffer |-> <<>>,
                       pieces |-> <<Piece("Original", 0, length, line_breaks)>>,
                       line_cache |-> <<>>,
                       total_length |-> length,
                       total_lines |-> line_breaks + 1,
                       line_cache_dirty |-> TRUE,
                       char_cache_dirty_from |-> 0])

len(t) == t.total_length
lines(t) == t.total_lines

\* ------------------------------------------------------------- lookup
RECURSIVE find_loop(_, _, _, _)
find_loop(pieces, offset, i, current_offset) ==
    IF i >= Len(pieces) THEN Len(pieces)
    ELSE IF current_offset + at(pieces, i).length > offset THEN i
    ELSE find_loop(pieces, offset, i + 1, current_offset + at(pieces, i).length)

\* The lookup without the end-of-document case.
find_piece_containing_offset_no_end(t, offset) ==
    find_loop(t.pieces, offset, 0, 0)

find_piece_containing_offset(t, offset) ==
    IF offset > 0 /\ offset = t.total_length
    THEN Len(t.pieces) - 1
    ELSE find_loop(t.pieces, offset, 0, 0)

RECURSIVE get_piece_start_offset(_, _)
get_piece_start_offset(t, piece_idx) ==
    IF piece_idx <= 0 THEN 0
    ELSE get_piece_start_offset(t, piece_idx - 1) + at(t.pieces, piece_idx - 1).length

\* -------------------------------------------------------------- split
\* The right remainder of a split, with the start of the whole piece kept.
split_right_piece_keeps_start(piece, offset_in_piece, right_text) ==
    Piece(piece.source, piece.start, piece.length - offset_in_piece,
          count_line_breaks(right_text))

\* The right remainder of a split.
split_right_piece(piece, offset_in_piece, right_text) ==
    Piece(piece.source, piece.start + offset_in_piece, piece.length - offset_in_piece,
          count_line_breaks(right_text))

\* Result: some = FALSE is None; otherwise insert_idx and the new piece list.
\* split_piece_at for a piece index in range, given the piece and the offset in it.
split_in_piece(t, piece_idx, piece, offset_in_piece) ==
    IF offset_in_piece = 0
    THEN [some |-> TRUE, insert_idx |-> piece_idx, pieces |-> t.pieces]
    ELSE IF offset_in_piece >= piece.length
    THEN [some |-> TRUE, insert_idx |-> piece_idx + 1, pieces |-> t.pieces]
    ELSE
      LET piece_text == slice(source_text(t, piece), piece.start, piece.start + piece.length)
          left_text == slice(piece_text, 0, offset_in_piece)
          right_text == slice(piece_text, offset_in_piece, Len(piece_text))
          left_piece == Piece(piece.source, piece.start, offset_in_piece,
                              count_line_breaks(left_text))
          right_piece == split_right_piece(piece, offset_in_piece, right_text)
      IN [some |-> TRUE, insert_idx |-> piece_idx + 1,
          pieces |-> vec_insert(vec_set(t.pieces, piece_idx, left_piece),
                                piece_idx + 1, right_piece)]

\* Result: some = FALSE is None; otherwise insert_idx and the new piece list.
split_piece_at(t, piece_idx, offset) ==
    IF piece_idx >= Len(t.pieces)
    THEN [some |-> FALSE, insert_idx |-> 0, pieces |-> t.pieces]
    ELSE split_in_piece(t, piece_idx, at(t.pieces, piece_idx),
                        offset - get_piece_start_offset(t, piece_idx))

\* ----------------------------------------------------------- coalesce
\* The merged piece, with the length of curr left out.
merge_into_prev_keeps_length(prev, curr) ==
    [prev EXCEPT !.line_breaks = prev.line_breaks + curr.line_breaks]

\* prev after curr is merged into it.
merge_into_prev(prev, curr) ==
    [prev EXCEPT !.length = prev.length + curr.length,
                 !.line_breaks = prev.line_breaks + curr.line_breaks]

\* coalesce_pieces_around merging nothing.
coalesce_pieces_around_never(t, piece_idx) == t

coalesce_pieces_around(t, piece_idx) ==
    IF Len(t.pieces) < 2 \/ piece_idx = 0 \/ piece_idx >= Len(t.pieces)
    THEN t
    ELSE
      LET prev == at(t.pieces, piece_idx - 1)
          curr == at(t.pieces, piece_idx)
          can_merge == prev.source = curr.source /\ prev.start + prev.length = curr.start
      IN IF can_merge
         THEN [t EXCEPT !.pieces =
                 vec_remove(vec_set(t.pieces, piece_idx - 1, merge_into_prev(prev, curr)),
                            piece_idx)]
         ELSE t

\* ------------------------------------------------------------- insert
\* The bounds check, rejecting the end of the document too.
insert_out_of_bounds_at_end(t, offset) == offset >= t.total_length

insert_out_of_bounds(t, offset) == offset > t.total_length

\* add_buffer.push_str(text)
push_str(t, text) == [t EXCEPT !.add_buffer = t.add_buffer \o text]

\* place_piece leaving the piece out when there is no piece to split.
place_piece_needs_split(t, split_result, new_piece) ==
    [t EXCEPT !.pieces = IF split_result.some
                         THEN vec_insert(split_result.pieces, split_result.insert_idx,
                                         new_piece)
                         ELSE t.pieces,
              !.total_length = t.total_length + new_piece.length,
              !.total_lines = t.total_lines + new_piece.line_breaks]

\* The new piece put at the split's index (or pushed), and the totals updated.
place_piece(t, split_result, new_piece) ==
    [t EXCEPT !.pieces = IF split_result.some
                         THEN vec_insert(split_result.pieces, split_result.insert_idx,
                                         new_piece)
                         ELSE Append(t.pieces, new_piece),
              !.total_length = t.total_length + new_piece.length,
              !.total_lines = t.total_lines + new_piece.line_breaks]

\* The piece of an insert taken from the start of add_buffer.
new_piece_from_zero(t, text) == Piece("Add", 0, Len(text), count_line_breaks(text))

\* The piece of an insert: the text just appended to add_buffer.
new_piece(t, text) == Piece("Add", Len(t.add_buffer), Len(text), count_line_breaks(text))

\* The part of insert after the bounds check: the Table after the call.
insert_in_range(t, offset, text) ==
    coalesce_pieces_around(
        mark_caches_dirty_from(
            place_piece(push_str(t, text),
                        split_piece_at(push_str(t, text),
                                       find_piece_containing_offset(t, offset), offset),
                        new_piece(t, text)),
            offset),
        find_piece_containing_offset(t, offset))

\* insert with the text appended to the add buffer before the bounds check.
insert_appends_first(t, offset, text) ==
    IF insert_out_of_bounds(t, offset)
    THEN [res |-> "err", t |-> [t EXCEPT !.add_buffer = t.add_buffer \o text]]
    ELSE [res |-> "ok", t |-> insert_in_range(t, offset, text)]

insert(t, offset, text) ==
    IF insert_out_of_bounds(t, offset)
    THEN [res |-> "err", t |-> t]
    ELSE [res |-> "ok", t |-> insert_in_range(t, offset, text)]

\* ----------------------------------------------------------- get_text
RECURSIVE get_text_loop(_, _, _, _)
\* One round of the loop, for the piece found: copies from it and goes on.
get_text_copy(t, piece, offset_in_piece, current_offset, end_offset, result) ==
    LET piece_text == slice(source_text(t, piece), piece.start, piece.start + piece.length)
        available_in_piece == piece.length - offset_in_piece
        rest == end_offset - current_offset
        to_copy == IF rest < available_in_piece THEN rest ELSE available_in_piece
    IN get_text_loop(t, current_offset + to_copy, end_offset,
                     result \o slice(piece_text, offset_in_piece, offset_in_piece + to_copy))

get_text_at(t, piece_idx, current_offset, end_offset, result) ==
    IF piece_idx >= Len(t.pieces)
    THEN result
    ELSE get_text_copy(t, at(t.pieces, piece_idx),
                       current_offset - get_piece_start_offset(t, piece_idx),
                       current_offset, end_offset, result)

get_text_loop(t, current_offset, end_offset, result) ==
    IF current_offset < end_offset
    THEN get_text_at(t, find_piece_containing_offset(t, current_offset),
                     current_offset, end_offset, result)
    ELSE result

\* get_text rejecting a range that ends at the end of the document.
get_text_rejects_end(t, start, length) ==
    IF start + length >= t.total_length
    THEN <<>>
    ELSE get_text_loop(t, start, start + length, <<>>)

get_text(t, start, length) ==
    IF start + length > t.total_length
    THEN <<>>
    ELSE get_text_loop(t, start, start + length, <<>>)

count_line_breaks_in_range(t, start, end) ==
    count_line_breaks(get_text(t, start, end - start))

\* ----------------------------------------------------------- positions
\* Bytes of the two-byte character used by the UTF-8 specification: a lead
\* byte and its continuation byte.
LEAD == "C3"
CONT == "A9"

\* char::len_utf8 of the character that starts with this byte
len_utf8(byte) == IF byte = LEAD THEN 2 ELSE 1

\* &src_txt[piece.start..piece.start + piece.length] of the piece at piece_idx
piece_txt(t, piece_idx) ==
    slice(source_text(t, at(t.pieces, piece_idx)),
          at(t.pieces, piece_idx).start,
          at(t.pieces, piece_idx).start + at(t.pieces, piece_idx).length)

Position(line, column) == [line |-> line, column |-> column]

\* The result after the loop, with the column counted from the document start.
otp_at_end_from_zero(current_line, offset, last_line_start) ==
    Position(current_line, offset)

\* The result after the loop over the pieces: the last line and its column.
otp_at_end(current_line, offset, last_line_start) ==
    Position(current_line, offset - last_line_start)

RECURSIVE otp_pieces(_, _, _, _, _, _)
RECURSIVE otp_chars(_, _, _, _, _, _, _, _)
\* The loop over piece_txt.char_indices(), at byte index i of the piece.
otp_chars(t, offset, piece_idx, i, current_line, current_offset, line_start, last_line_start) ==
    IF i >= at(t.pieces, piece_idx).length
    THEN otp_pieces(t, offset, piece_idx + 1, current_line,
                    current_offset + at(t.pieces, piece_idx).length, last_line_start)
    ELSE IF current_offset + i = offset
    THEN Position(current_line, offset - line_start)
    ELSE IF at(piece_txt(t, piece_idx), i) = NL
    THEN otp_chars(t, offset, piece_idx, i + 1, current_line + 1, current_offset,
                   current_offset + i + 1, current_offset + i + 1)
    ELSE otp_chars(t, offset, piece_idx, i + len_utf8(at(piece_txt(t, piece_idx), i)),
                   current_line, current_offset, line_start, last_line_start)

\* The loop over the pieces; line_start restarts at each piece's offset.
otp_pieces(t, offset, piece_idx, current_line, current_offset, last_line_start) ==
    IF piece_idx >= Len(t.pieces)
    THEN otp_at_end(current_line, offset, last_line_start)
    ELSE otp_chars(t, offset, piece_idx, 0, current_line, current_offset, current_offset,
                   last_line_start)

offset_to_position(t, offset) ==
    IF offset > t.total_length
    THEN Position(0, 0)
    ELSE otp_pieces(t, offset, 0, 0, 0, 0)

RECURSIVE pto_pieces(_, _, _, _, _, _)
RECURSIVE pto_chars(_, _, _, _, _, _, _)
\* The loop over piece_txt.chars(), at byte index i of the piece.
pto_chars(t, pos, piece_idx, i, current_line, current_column, offset) ==
    IF i >= at(t.pieces, piece_idx).length
    THEN pto_pieces(t, pos, piece_idx + 1, current_line, current_column, offset)
    ELSE IF current_line = pos.line /\ current_column = pos.column
    THEN offset
    ELSE IF at(piece_txt(t, piece_idx), i) = NL
    THEN pto_chars(t, pos, piece_idx, i + 1, current_line + 1, 0, offset + 1)
    ELSE pto_chars(t, pos, piece_idx, i + len_utf8(at(piece_txt(t, piece_idx), i)),
                   current_line, current_column + 1,
                   offset + len_utf8(at(piece_txt(t, piece_idx), i)))

pto_pieces(t, pos, piece_idx, current_line, current_column, offset) ==
    IF piece_idx >= Len(t.pieces)
    THEN t.total_length
    ELSE pto_chars(t, pos, piece_idx, 0, current_line, current_column, offset)

position_to_offset(t, pos) == pto_pieces(t, pos, 0, 0, 0, 0)

\* ------------------------------------------------------------- delete
\* The left-edge shrink with the cached line breaks left stale.
shrink_left_stale_line_breaks(piece, deleted_length, deleted_line_breaks) ==
    [piece EXCEPT !.start = piece.start + deleted_length,
                  !.length = piece.length - deleted_length]

\* The piece after a deletion at its left edge.
shrink_left(piece, deleted_length, deleted_line_breaks) ==
    [piece EXCEPT !.start = piece.start + deleted_length,
                  !.length = piece.length - deleted_length,
                  !.line_breaks = piece.line_breaks - deleted_line_breaks]

\* The right-edge shrink moving the start and keeping the length.
shrink_right_moves_start(piece, deleted_length, deleted_line_breaks) ==
    [piece EXCEPT !.start = piece.start + deleted_length,
                  !.line_breaks = piece.line_breaks - deleted_line_breaks]

\* The piece after a deletion at its right edge.
shrink_right(piece, deleted_length, deleted_line_breaks) ==
    [piece EXCEPT !.length = piece.length - deleted_length,
                  !.line_breaks = piece.line_breaks - deleted_line_breaks]

\* The interior deletion with the right remainder never inserted.
delete_interior_drops_right(t, piece_idx, offset_in_piece_start, offset_in_piece_end) ==
    LET piece == at(t.pieces, piece_idx)
        left_piece ==
          [piece EXCEPT !.length = offset_in_piece_start,
                        !.line_breaks =
                           count_line_breaks(slice(source_text(t, piece), piece.start,
                                                   piece.start + offset_in_piece_start))]
    IN vec_set(t.pieces, piece_idx, left_piece)

\* The piece list after an interior deletion: left and right remainder.
delete_interior(t, piece_idx, offset_in_piece_start, offset_in_piece_end) ==
    LET piece == at(t.pieces, piece_idx)
        right_piece ==
          Piece(piece.source, piece.start + offset_in_piece_end,
                piece.length - offset_in_piece_end,
                count_line_breaks(slice(source_text(t, piece),
                                        piece.start + offset_in_piece_end,
                                        piece.start + piece.length)))
        left_piece ==
          [piece EXCEPT !.length = offset_in_piece_start,
                        !.line_breaks =
                           count_line_breaks(slice(source_text(t, piece), piece.start,
                                                   piece.start + offset_in_piece_start))]
    IN vec_insert(vec_set(t.pieces, piece_idx, left_piece), piece_idx + 1, right_piece)

\* delete_within_piece for a piece index in range, given the piece and the
\* offsets in it.
delete_in_piece(t, piece_idx, piece, offset_in_piece_start, offset_in_piece_end) ==
    IF offset_in_piece_start >= piece.length \/ offset_in_piece_end > piece.length
    THEN [res |-> "err", pieces |-> t.pieces]
    ELSE
      LET deleted_length == offset_in_piece_end - offset_in_piece_start
          deleted_text == slice(source_text(t, piece),
                                piece.start + offset_in_piece_start,
                                piece.start + offset_in_piece_end)
          deleted_line_breaks == count_line_breaks(deleted_text)
      IN IF deleted_length = piece.length
         THEN [res |-> "ok", pieces |-> vec_remove(t.pieces, piece_idx)]
         ELSE IF offset_in_piece_start = 0
         THEN [res |-> "ok",
               pieces |-> vec_set(t.pieces, piece_idx,
                                  shrink_left(piece, deleted_length, deleted_line_breaks))]
         ELSE IF offset_in_piece_end = piece.length
         THEN [res |-> "ok",
               pieces |-> vec_set(t.pieces, piece_idx,
                                  shrink_right(piece, deleted_length, deleted_line_breaks))]
         ELSE [res |-> "ok",
               pieces |-> delete_interior(t, piece_idx, offset_in_piece_start,
                                          offset_in_piece_end)]

\* Result of the two helpers: res is "ok" or "err", pieces the new piece list.
delete_within_piece(t, piece_idx, start, end) ==
    IF piece_idx >= Len(t.pieces)
    THEN [res |-> "err", pieces |-> t.pieces]
    ELSE delete_in_piece(t, piece_idx, at(t.pieces, piece_idx),
                         start - get_piece_start_offset(t, piece_idx),
                         end - get_piece_start_offset(t, piece_idx))

\* The removal of the emptied boundary pieces, highest index first.
RECURSIVE remove_all(_, _)
remove_all(pieces, to_remove) ==
    IF to_remove = <<>> THEN pieces
    ELSE LET idx == Head(to_remove)
         IN remove_all(IF idx < Len(pieces) THEN vec_remove(pieces, idx) ELSE pieces,
                       Tail(to_remove))

\* The first piece cut down to its left part.
keep_left(t, pieces, start_piece_idx, offset_in_first_piece) ==
    vec_set(pieces, start_piece_idx,
            [at(pieces, start_piece_idx) EXCEPT
               !.length = offset_in_first_piece,
               !.line_breaks =
                  count_line_breaks(slice(source_text(t, at(pieces, start_piece_idx)),
                                          at(pieces, start_piece_idx).start,
                                          at(pieces, start_piece_idx).start
                                            + offset_in_first_piece))])

\* The last piece cut down to its right part, its line_breaks left stale.
keep_right_stale_line_breaks(t, pieces, end_piece_idx, offset_in_last_piece) ==
    vec_set(pieces, end_piece_idx,
            [at(pieces, end_piece_idx) EXCEPT
               !.start = at(pieces, end_piece_idx).start + offset_in_last_piece,
               !.length = at(pieces, end_piece_idx).length - offset_in_last_piece])

\* The last piece cut down to its right part.
keep_right(t, pieces, end_piece_idx, offset_in_last_piece) ==
    LET piece == at(pieces, end_piece_idx)
        new_start == piece.start + offset_in_last_piece
        new_length == piece.length - offset_in_last_piece
    IN vec_set(pieces, end_piece_idx,
               [piece EXCEPT !.start = new_start,
                             !.length = new_length,
                             !.line_breaks =
                                count_line_breaks(slice(source_text(t, piece), new_start,
                                                        new_start + new_length))])

\* The pieces strictly between the first and the last removed.
drain_between(pieces, start_piece_idx, end_piece_idx) ==
    IF end_piece_idx > start_piece_idx + 1
    THEN vec_drain(pieces, start_piece_idx + 1, end_piece_idx)
    ELSE pieces

\* The index of the last piece after drain_between.
end_idx_after_drain(start_piece_idx, end_piece_idx) ==
    IF end_piece_idx > start_piece_idx + 1 THEN start_piece_idx + 1 ELSE end_piece_idx

\* The emptied boundary pieces removed.
remove_empty_boundaries(pieces, start_piece_idx, end_piece_idx) ==
    LET rm_end == IF end_piece_idx < Len(pieces) /\ at(pieces, end_piece_idx).length = 0
                  THEN <<end_piece_idx>> ELSE <<>>
        rm_start == IF /\ start_piece_idx < Len(pieces)
                       /\ at(pieces, start_piece_idx).length = 0
                       /\ start_piece_idx # end_piece_idx
                    THEN <<start_piece_idx>> ELSE <<>>
    IN remove_all(pieces,
                  IF rm_end # <<>> /\ rm_start # <<>> /\ end_piece_idx < start_piece_idx
                  THEN rm_start \o rm_end
                  ELSE rm_end \o rm_start)

delete_across_pieces(t, start_piece_idx, end_piece_idx, start, end) ==
    IF start_piece_idx >= Len(t.pieces) \/ end_piece_idx >= Len(t.pieces)
    THEN [res |-> "err", pieces |-> t.pieces]
    ELSE [res |-> "ok",
          pieces |->
            remove_empty_boundaries(
              drain_between(
                keep_right(t,
                           keep_left(t, t.pieces, start_piece_idx,
                                     start - get_piece_start_offset(t, start_piece_idx)),
                           end_piece_idx,
                           end - get_piece_start_offset(t, end_piece_idx)),
                start_piece_idx, end_piece_idx),
              start_piece_idx,
              end_idx_after_drain(start_piece_idx, end_piece_idx))]

\* The choice between the two deletions.
delete_dispatch(t, start_piece_idx, end_piece_idx, start, end) ==
    IF start_piece_idx = end_piece_idx
    THEN delete_within_piece(t, start_piece_idx, start, end)
    ELSE delete_across_pieces(t, start_piece_idx, end_piece_idx, start, end)

\* normalise_empty resetting add_buffer too once no piece is left.
normalise_empty_clears_add(t) ==
    IF t.pieces = <<>> THEN [t EXCEPT !.total_lines = 1, !.add_buffer = <<>>] ELSE t

\* total_lines of an empty piece list is 1.
normalise_empty(t) == IF t.pieces = <<>> THEN [t EXCEPT !.total_lines = 1] ELSE t

\* No coalescing when the piece list is empty.
coalesce_unless_empty(t, start_piece_idx) ==
    IF t.pieces = <<>> THEN t ELSE coalesce_pieces_around(t, start_piece_idx)

\* The rest of delete, given the result r of the deletion in the piece list.
delete_finish(t, r, start, length, deleted_lines, start_piece_idx) ==
    IF r.res = "err"
    THEN [res |-> "err", t |-> [t EXCEPT !.pieces = r.pieces]]
    ELSE [res |-> "ok",
          t |-> coalesce_unless_empty(
                  mark_caches_dirty_from(
                    normalise_empty([t EXCEPT !.pieces = r.pieces,
                                              !.total_length = t.total_length - length,
                                              !.total_lines = t.total_lines - deleted_lines]),
                    start),
                  start_piece_idx)]

\* The part of delete after the range check.
delete_in_range(t, start, length) ==
    delete_finish(t,
                  delete_dispatch(t, find_piece_containing_offset(t, start),
                                  find_piece_containing_offset(t, start + length),
                                  start, start + length),
                  start, length,
                  count_line_breaks_in_range(t, start, start + length),
                  find_piece_containing_offset(t, start))

delete_out_of_bounds(t, start, length) == start + length > t.total_length

\* delete clamping a range that runs past the end instead of rejecting it.
delete_clamps(t, start, length) ==
    IF start > t.total_length
    THEN [res |-> "err", t |-> t]
    ELSE delete_in_range(t, start,
                         IF delete_out_of_bounds(t, start, length)
                         THEN t.total_length - start ELSE length)

delete(t, start, length) ==
    IF delete_out_of_bounds(t, start, length)
    THEN [res |-> "err", t |-> t]
    ELSE delete_in_range(t, start, length)

\* ------------------------------------------------------------ aborts
\* str::is_char_boundary: the start, the end, or a byte that is not a
\* continuation byte.
is_char_boundary(s, index) ==
    \/ index = 0
    \/ index = Len(s)
    \/ index < Len(s) /\ at(s, index) # CONT

\* &s[from..to] aborts unless from <= to <= s.len() and both are character
\* boundaries.
slice_panics(s, from, to) ==
    \/ from > to
    \/ to > Len(s)
    \/ ~is_char_boundary(s, from)
    \/ ~is_char_boundary(s, to)

\* The slices of split_piece_at, which it takes for an offset strictly
\* inside the piece.
split_in_piece_panics(t, piece_idx, piece, offset_in_piece) ==
    /\ offset_in_piece # 0
    /\ offset_in_piece < piece.length
    /\ \/ slice_panics(source_text(t, piece), piece.start, piece.start + piece.length)
       \/ slice_panics(piece_txt(t, piece_idx), 0, offset_in_piece)
       \/ slice_panics(piece_txt(t, piece_idx), offset_in_piece, piece.length)

split_piece_at_panics(t, piece_idx, offset) ==
    /\ piece_idx < Len(t.pieces)
    /\ split_in_piece_panics(t, piece_idx, at(t.pieces, piece_idx),
                             offset - get_piece_start_offset(t, piece_idx))

\* insert aborts when the split of the piece at offset aborts; add_buffer
\* already holds the text then.
insert_panics(t, offset, text) ==
    /\ ~insert_out_of_bounds(t, offset)
    /\ split_piece_at_panics(push_str(t, text), find_piece_containing_offset(t, offset),
                             offset)

RECURSIVE get_text_loop_panics(_, _, _)
\* The two slices of one round of get_text's loop, and the rounds after it.
get_text_copy_panics(t, piece_idx, piece, offset_in_piece, current_offset, end_offset) ==
    LET available_in_piece == piece.length - offset_in_piece
        rest == end_offset - current_offset
        to_copy == IF rest < available_in_piece THEN rest ELSE available_in_piece
    IN \/ slice_panics(source_text(t, piece), piece.start, piece.start + piece.length)
       \/ slice_panics(piece_txt(t, piece_idx), offset_in_piece, offset_in_piece + to_copy)
       \/ get_text_loop_panics(t, current_offset + to_copy, end_offset)

get_text_at_panics(t, piece_idx, current_offset, end_offset) ==
    /\ piece_idx < Len(t.pieces)
    /\ get_text_copy_panics(t, piece_idx, at(t.pieces, piece_idx),
                            current_offset - get_piece_start_offset(t, piece_idx),
                            current_offset, end_offset)

get_text_loop_panics(t, current_offset, end_offset) ==
    /\ current_offset < end_offset
    /\ get_text_at_panics(t, find_piece_containing_offset(t, current_offset),
                          current_offset, end_offset)

get_text_panics(t, start, length) ==
    /\ start + length <= t.total_length
    /\ get_text_loop_panics(t, start, start + length)

\* The slices of delete_within_piece, taken once its range checks pass.
delete_in_piece_panics(t, piece, offset_in_piece_start, offset_in_piece_end) ==
    /\ offset_in_piece_start < piece.length
    /\ offset_in_piece_end <= piece.length
    /\ \/ slice_panics(source_text(t, piece), piece.start + offset_in_piece_start,
                       piece.start + offset_in_piece_end)
       \/ /\ offset_in_piece_end - offset_in_piece_start # piece.length
          /\ offset_in_piece_start # 0
          /\ offset_in_piece_end # piece.length
          /\ \/ slice_panics(source_text(t, piece), piece.start + offset_in_piece_end,
                             piece.start + piece.length)
             \/ slice_panics(source_text(t, piece), piece.start,
                             piece.start + offset_in_piece_start)

delete_within_piece_panics(t, piece_idx, start, end) ==
    /\ piece_idx < Len(t.pieces)
    /\ delete_in_piece_panics(t, at(t.pieces, piece_idx),
                              start - get_piece_start_offset(t, piece_idx),
                              end - get_piece_start_offset(t, piece_idx))

\* The slices of delete_across_pieces: the left part of the first piece and
\* the right part of the last piece.
delete_across_pieces_panics(t, start_piece_idx, end_piece_idx, start, end) ==
    /\ start_piece_idx < Len(t.pieces)
    /\ end_piece_idx < Len(t.pieces)
    /\ \/ slice_panics(source_text(t, at(t.pieces, start_piece_idx)),
                       at(t.pieces, start_piece_idx).start,
                       at(t.pieces, start_piece_idx).start
                         + (start - get_piece_start_offset(t, start_piece_idx)))
       \/ slice_panics(source_text(t, at(t.pieces, end_piece_idx)),
                       at(t.pieces, end_piece_idx).start
                         + (end - get_piece_start_offset(t, end_piece_idx)),
                       at(t.pieces, end_piece_idx).start + at(t.pieces, end_piece_idx).length)

delete_dispatch_panics(t, start_piece_idx, end_piece_idx, start, end) ==
    IF start_piece_idx = end_piece_idx
    THEN delete_within_piece_panics(t, start_piece_idx, start, end)
    ELSE delete_across_pieces_panics(t, start_piece_idx, end_piece_idx, start, end)

\* delete aborts in count_line_breaks_in_range's get_text or, after it, in
\* the slices of the deletion.
delete_panics(t, start, length) ==
    /\ ~delete_out_of_bounds(t, start, length)
    /\ \/ get_text_panics(t, start, length)
       \/ delete_dispatch_panics(t, find_piece_containing_offset(t, start),
                                 find_piece_containing_offset(t, start + length),
                                 start, start + length)

\* offset_to_position subtracts last_line_start from an offset that no
\* character index matched: below zero when a newline follows the offset.
offset_to_position_underflows(t, offset) == offset_to_position(t, offset).column < 0

\* ------------------------------------------------------------- editor
\* Option: None, or Some(v).
None == <<>>
Some(v) == <<v>>

\* HashMap::new, HashMap::insert and HashMap::contains_key
map_new == [k \in {} |-> 0]
\* HashMap::insert losing the entries already there.
map_insert_alone(m, k, v) == (k :> v)

map_insert(m, k, v) == (k :> v) @@ m
contains_key(m, k) == k \in DOMAIN m

\* editor::State::new
State_new ==
    [buffers |-> map_new, buffer_metadata |-> map_new, cursors |-> map_new,
     active_buffer |-> None, undo_stack |-> map_new, redo_stack |-> map_new]

\* meta::Data and cursor::State of a buffer just created
new_metadata(now) ==
    [file_path |-> None, language |-> None, modified |-> FALSE, created_at |-> now]
new_cursor(buffer_id) ==
    [position |-> Position(0, 0), selection |-> None, buffer_id |-> buffer_id]

\* create_buffer making every new buffer the active one.
create_buffer_activates(s, content, buffer_id, now) ==
    [buffers |-> map_insert(s.buffers, buffer_id, new(content)),
     buffer_metadata |-> map_insert(s.buffer_metadata, buffer_id, new_metadata(now)),
     cursors |-> map_insert(s.cursors, buffer_id, new_cursor(buffer_id)),
     active_buffer |-> Some(buffer_id),
     undo_stack |-> map_insert(s.undo_stack, buffer_id, <<>>),
     redo_stack |-> map_insert(s.redo_stack, buffer_id, <<>>)]

\* create_buffer, with the identifier that ID::new() draws and the time that
\* SystemTime::now() reads
create_buffer(s, content, buffer_id, now) ==
    [buffers |-> map_insert(s.buffers, buffer_id, new(content)),
     buffer_metadata |-> map_insert(s.buffer_metadata, buffer_id, new_metadata(now)),
     cursors |-> map_insert(s.cursors, buffer_id, new_cursor(buffer_id)),
     active_buffer |-> IF s.active_buffer = None THEN Some(buffer_id) ELSE s.active_buffer,
     undo_stack |-> map_insert(s.undo_stack, buffer_id, <<>>),
     redo_stack |-> map_insert(s.redo_stack, buffer_id, <<>>)]

\* mark_buffer_modified leaving the flag as it is.
mark_buffer_modified_forgets(s, buffer_id) == s

mark_buffer_modified(s, buffer_id) ==
    IF contains_key(s.buffer_metadata, buffer_id)
    THEN [s EXCEPT !.buffer_metadata[buffer_id].modified = TRUE]
    ELSE s

\* The end of the arms marking the buffer before the Err is returned.
edit_finish_marks_first(s, buffer_id, r) ==
    IF r.res = "err"
    THEN [res |-> "err",
          state |-> mark_buffer_modified([s EXCEPT !.buffers[buffer_id] = r.t], buffer_id)]
    ELSE [res |-> "ok",
          state |-> mark_buffer_modified([s EXCEPT !.buffers[buffer_id] = r.t], buffer_id)]

\* The end of the InsertText and DeleteText arms, given the result r of the
\* Table call: `?` returns the Err, otherwise the buffer is marked.
edit_finish(s, buffer_id, r) ==
    IF r.res = "err"
    THEN [res |-> "err", state |-> [s EXCEPT !.buffers[buffer_id] = r.t]]
    ELSE [res |-> "ok",
          state |-> mark_buffer_modified([s EXCEPT !.buffers[buffer_id] = r.t], buffer_id)]

execute_insert_text(s, command) ==
    IF contains_key(s.buffers, command.buffer_id)
    THEN edit_finish(s, command.buffer_id,
                     insert(s.buffers[command.buffer_id], command.offset, command.text))
    ELSE [res |-> "ok", state |-> s]

execute_delete_text(s, command) ==
    IF contains_key(s.buffers, command.buffer_id)
    THEN edit_finish(s, command.buffer_id,
                     delete(s.buffers[command.buffer_id], command.start, command.length))
    ELSE [res |-> "ok", state |-> s]

\* The MoveCursor arm keeping the selection.
move_cursor_keeps_selection(cursor, position) == [cursor EXCEPT !.position = position]

move_cursor(cursor, position) ==
    [cursor EXCEPT !.position = position, !.selection = None]

execute_move_cursor(s, command) ==
    IF contains_key(s.cursors, command.buffer_id)
    THEN [res |-> "ok",
          state |-> [s EXCEPT !.cursors[command.buffer_id] =
                                  move_cursor(s.cursors[command.buffer_id],
                                              command.position)]]
    ELSE [res |-> "ok", state |-> s]

execute_set_selection(s, command) ==
    IF contains_key(s.cursors, command.buffer_id)
    THEN [res |-> "ok",
          state |-> [s EXCEPT !.cursors[command.buffer_id].selection =
                                  Some(command.range)]]
    ELSE [res |-> "ok", state |-> s]

\* The SaveBuffer arm leaving the modified flag as it is.
execute_save_buffer_keeps_modified(s, command) ==
    IF contains_key(s.buffer_metadata, command.buffer_id)
    THEN [res |-> "ok",
          state |-> [s EXCEPT !.buffer_metadata[command.buffer_id].file_path =
                                  Some(command.file_path)]]
    ELSE [res |-> "ok", state |-> s]

execute_save_buffer(s, command) ==
    IF contains_key(s.buffer_metadata, command.buffer_id)
    THEN [res |-> "ok",
          state |-> [s EXCEPT !.buffer_metadata[command.buffer_id].file_path =
                                  Some(command.file_path),
                              !.buffer_metadata[command.buffer_id].modified = FALSE]]
    ELSE [res |-> "ok", state |-> s]

\* execute_command; new_id and now are read only by the NewBuffer arm.
execute_command(s, command, new_id, now) ==
    CASE command.type = "InsertText" -> execute_insert_text(s, command)
      [] command.type = "DeleteText" -> execute_delete_text(s, command)
      [] command.type = "MoveCursor" -> execute_move_cursor(s, command)
      [] command.type = "SetSelection" -> execute_set_selection(s, command)
      [] command.type = "NewBuffer" ->
            [res |-> "ok", state |-> create_buffer(s, command.content, new_id, now)]
      [] command.type = "SaveBuffer" -> execute_save_buffer(s, command)

\* get_buffer_text
get_buffer_text(s, buffer_id) ==
    IF contains_key(s.buffers, buffer_id)
    THEN Some(get_text(s.buffers[buffer_id], 0, len(s.buffers[buffer_id])))
    ELSE None

\* ------------------------------------------------------ state machine
\* table: the Table under edit.  last: the last call, its arguments, its
\* result and the Table before it.  reference: the plain string that the
\* successful calls splice.  ops: number of calls made.
\* state: the editor State.  cmd: the last command executed, its result and
\* the State before it.
\* run: the run of consecutive inserts under way: the number of pieces before
\* it, the number of its inserts and the offset where the next one goes.
VARIABLES table, last, reference, ops, state, cmd, run
vars == <<table, last, reference, ops, state, cmd, run>>

NoRun == [n |-> 0, len |-> 0, next |-> 0]

NoUndo == [is |-> FALSE, text |-> <<>>, len |-> 0, lines |-> 0]

\* The operation and the result of the call before the last one.
NoPrev == [op |-> "none", res |-> "ok"]
Prev(call) == [op |-> call.op, res |-> call.res]

Call(op, offset, length, text, res, pre, undo, prev) ==
    [op |-> op, offset |-> offset, length |-> length, text |-> text,
     res |-> res, pre |-> pre, undo |-> undo, prev |-> prev]

\* plain string splicing
str_insert(s, offset, text) == SubSeq(s, 1, offset) \o text \o SubSeq(s, offset + 1, Len(s))
str_delete(s, start, length) == SubSeq(s, 1, start) \o SubSeq(s, start + length + 1, Len(s))

\* Values the commands are drawn from.
BufferIds == 101..(100 + MaxBuffers)
Positions == {Position(0, 0), Position(1, 1)}
Ranges == {[start |-> p, end |-> q] : p \in Positions, q \in Positions}
Contents == {<<>>, <<"a", NL>>}
FilePaths == {"a.txt"}

NoCommand == [type |-> "none"]
\* What the commands so far amount to: edited[b] tells whether an InsertText
\* or DeleteText on buffer b returned Ok since b was created or last saved,
\* first is the first buffer ever created.
NoHistory == [edited |-> map_new, first |-> None]

edited_after(edited, command, res, new_id) ==
    CASE command.type = "NewBuffer" -> map_insert(edited, new_id, FALSE)
      [] command.type \in {"InsertText", "DeleteText"}
           /\ res = "ok" /\ contains_key(edited, command.buffer_id) ->
             [edited EXCEPT ![command.buffer_id] = TRUE]
      [] command.type = "SaveBuffer" /\ contains_key(edited, command.buffer_id) ->
             [edited EXCEPT ![command.buffer_id] = FALSE]
      [] OTHER -> edited

History(history, command, res, new_id) ==
    [edited |-> edited_after(history.edited, command, res, new_id),
     first |-> IF command.type = "NewBuffer" /\ history.first = None
               THEN Some(new_id) ELSE history.first]

Executed(command, res, pre, history) ==
    [command |-> command, res |-> res, pre |-> pre, history |-> history]

\* Texts of the UTF-8 specification: sequences of whole characters, one of
\* them two bytes long.
OrigCharsU == {<<LEAD, CONT>>, <<NL>>}
AddCharsU == {<<LEAD, CONT>>, <<"b">>}
RECURSIVE flatten(_)
flatten(cs) == IF cs = <<>> THEN <<>> ELSE Head(cs) \o flatten(Tail(cs))
InitTextsU == {flatten(cs) : cs \in SeqsUpTo(OrigCharsU, MaxInitLen)}
InsertTextsU == {flatten(cs) : cs \in SeqsUpTo(AddCharsU, MaxTextLen)}

Init ==
    \E initial \in InitTexts :
        /\ table = new(initial)
        /\ last = Call("new", 0, 0, initial, "ok", new(initial), NoUndo, NoPrev)
        /\ reference = initial
        /\ ops = 0
        /\ state = State_new
        /\ cmd = Executed(NoCommand, "ok", State_new, NoHistory)
        /\ run = NoRun

InitU ==
    \E initial \in InitTextsU :
        /\ table = new(initial)
        /\ last = Call("new", 0, 0, initial, "ok", new(initial), NoUndo, NoPrev)
        /\ reference = initial
        /\ ops = 0
        /\ state = State_new
        /\ cmd = Executed(NoCommand, "ok", State_new, NoHistory)
        /\ run = NoRun

\* One call of insert: it aborts, or it returns and the Table is its result.
\* After an abort no Table is left to observe and no call follows.
InsertCall(offset, text) ==
    IF insert_panics(table, offset, text)
    THEN /\ table' = table
         /\ last' = Call("insert", offset, 0, text, "panic", table, NoUndo, Prev(last))
         /\ reference' = reference
    ELSE LET r == insert(table, offset, text)
         IN /\ table' = r.t
            /\ last' = Call("insert", offset, 0, text, r.res, table, NoUndo, Prev(last))
            /\ reference' = IF r.res = "ok" THEN str_insert(reference, offset, text)
                            ELSE reference

\* The editor alone: a State with no buffer, and no Table outside of it.
InitEditor ==
    /\ state = State_new
    /\ cmd = Executed(NoCommand, "ok", State_new, NoHistory)
    /\ run = NoRun
    /\ ops = 0
    /\ table = new(<<>>)
    /\ last = Call("new", 0, 0, <<>>, "ok", new(<<>>), NoUndo, NoPrev)
    /\ reference = <<>>

Insert ==
    /\ ops < MaxOps
    /\ last.res # "panic"
    /\ \E offset \in 0..(table.total_length + 1), text \in InsertTexts :
          InsertCall(offset, text)
    /\ ops' = ops + 1
    /\ UNCHANGED <<state, cmd, run>>

InsertU ==
    /\ ops < MaxOps
    /\ last.res # "panic"
    /\ \E offset \in 0..(table.total_length + 1), text \in InsertTextsU :
          InsertCall(offset, text)
    /\ ops' = ops + 1
    /\ UNCHANGED <<state, cmd, run>>

\* One call of delete.
DeleteCall(start, length) ==
    IF delete_panics(table, start, length)
    THEN /\ table' = table
         /\ last' = Call("delete", start, length, <<>>, "panic", table, NoUndo, Prev(last))
         /\ reference' = reference
    ELSE LET r == delete(table, start, length)
             inverse == /\ last.op = "insert"
                        /\ last.res = "ok"
                        /\ start = last.offset
                        /\ length = Len(last.text)
         IN /\ table' = r.t
            /\ last' = Call("delete", start, length, <<>>, r.res, table,
                            IF inverse
                            THEN [is |-> TRUE,
                                  text |-> get_text(last.pre, 0, len(last.pre)),
                                  len |-> len(last.pre),
                                  lines |-> lines(last.pre)]
                            ELSE NoUndo,
                            Prev(last))
            /\ reference' = IF r.res = "ok" THEN str_delete(reference, start, length)
                            ELSE reference

Delete ==
    /\ ops < MaxOps
    /\ last.res # "panic"
    /\ \E start \in 0..(table.total_length + 1), length \in 0..(table.total_length + 1) :
          DeleteCall(start, length)
    /\ ops' = ops + 1
    /\ UNCHANGED <<state, cmd, run>>

\* One call of get_text: a value, or an abort in a slice.
GetText ==
    /\ ops < MaxOps
    /\ last.res # "panic"
    /\ \E start \in 0..(table.total_length + 1), length \in 0..(table.total_length + 1) :
          last' = Call("get_text", start, length, <<>>,
                       IF get_text_panics(table, start, length) THEN "panic" ELSE "value",
                       table, NoUndo, Prev(last))
    /\ ops' = ops + 1
    /\ UNCHANGED <<table, reference, state, cmd, run>>

\* One call of offset_to_position.  A subtraction below zero aborts in a
\* build with overflow checks and wraps around in a build without them.
OffsetToPosition ==
    /\ ops < MaxOps
    /\ last.res # "panic"
    /\ \E offset \in 0..(table.total_length + 1), overflow_checks \in BOOLEAN :
          last' = Call("offset_to_position", offset, 0, <<>>,
                       IF offset_to_position_underflows(table, offset) /\ overflow_checks
                       THEN "panic" ELSE "value",
                       table, NoUndo, Prev(last))
    /\ ops' = ops + 1
    /\ UNCHANGED <<table, reference, state, cmd, run>>

Next == Insert \/ Delete

Spec == Init /\ [][Next]_vars

\* One call of execute_command; the command count stands for the clock.
Execute(command, new_id) ==
    /\ state' = execute_command(state, command, new_id, ops).state
    /\ cmd' = Executed(command, execute_command(state, command, new_id, ops).res, state,
                       History(cmd.history, command,
                               execute_command(state, command, new_id, ops).res, new_id))
    /\ ops' = ops + 1
    /\ UNCHANGED <<table, last, reference, run>>

\* The text, offsets and lengths reach one past the longest buffer.
MaxBufferLen(s) ==
    LET lens == {s.buffers[b].total_length : b \in DOMAIN s.buffers}
    IN IF lens = {} THEN 0 ELSE CHOOSE n \in lens : \A k \in lens : k <= n

InsertText ==
    /\ ops < MaxCmds
    /\ \E buffer_id \in BufferIds, offset \in 0..(MaxBufferLen(state) + 1),
          text \in InsertTexts :
          Execute([type |-> "InsertText", buffer_id |-> buffer_id, offset |-> offset,
                   text |-> text], 0)

DeleteText ==
    /\ ops < MaxCmds
    /\ \E buffer_id \in BufferIds, start \in 0..(MaxBufferLen(state) + 1),
          length \in 0..(MaxBufferLen(state) + 1) :
          Execute([type |-> "DeleteText", buffer_id |-> buffer_id, start |-> start,
                   length |-> length], 0)

MoveCursor ==
    /\ ops < MaxCmds
    /\ \E buffer_id \in BufferIds, position \in Positions :
          Execute([type |-> "MoveCursor", buffer_id |-> buffer_id,
                   position |-> position], 0)

SetSelection ==
    /\ ops < MaxCmds
    /\ \E buffer_id \in BufferIds, range \in Ranges :
          Execute([type |-> "SetSelection", buffer_id |-> buffer_id, range |-> range], 0)

\* ID::new() draws an identifier that no buffer has.
NewBuffer ==
    /\ ops < MaxCmds
    /\ \E new_id \in BufferIds \ DOMAIN state.buffers, content \in Contents :
          Execute([type |-> "NewBuffer", content |-> content], new_id)

SaveBuffer ==
    /\ ops < MaxCmds
    /\ \E buffer_id \in BufferIds, file_path \in FilePaths :
          Execute([type |-> "SaveBuffer", buffer_id |-> buffer_id,
                   file_path |-> file_path], 0)

NextEditor ==
    InsertText \/ DeleteText \/ MoveCursor \/ SetSelection \/ NewBuffer \/ SaveBuffer

SpecEditor == InitEditor /\ [][NextEditor]_vars

\* The calls made before a run of typing starts.
PrefixInsert ==
    /\ ops < MaxPrefix
    /\ run.len = 0
    /\ \E offset \in 0..(table.total_length + 1), text \in InsertTexts :
          InsertCall(offset, text)
    /\ ops' = ops + 1
    /\ UNCHANGED <<state, cmd, run>>

PrefixDelete ==
    /\ ops < MaxPrefix
    /\ run.len = 0
    /\ \E start \in 0..(table.total_length + 1), length \in 0..(table.total_length + 1) :
          DeleteCall(start, length)
    /\ ops' = ops + 1
    /\ UNCHANGED <<state, cmd, run>>

\* One insert of a run of typing: non-empty text, placed anywhere in the
\* document when the run starts and right after the previous text later.
Type ==
    /\ run.len < MaxRun
    /\ \E text \in InsertTexts \ {<<>>},
          offset \in IF run.len = 0 THEN 0..table.total_length ELSE {run.next} :
          /\ InsertCall(offset, text)
          /\ run' = [n |-> IF run.len = 0 THEN Len(table.pieces) ELSE run.n,
                     len |-> run.len + 1,
                     next |-> offset + Len(text)]
    /\ UNCHANGED <<ops, state, cmd>>

NextTyping == PrefixInsert \/ PrefixDelete \/ Type

SpecTyping == Init /\ [][NextTyping]_vars

NextU == InsertU \/ Delete \/ GetText \/ OffsetToPosition

SpecU == InitU /\ [][NextU]_vars

\* ------------------------------------------------- document, by pieces
\* The in-order concatenation of the pieces' slices of their buffers.
RECURSIVE concat_pieces(_, _)
concat_pieces(t, n) ==
    IF n = 0 THEN <<>>
    ELSE LET piece == at(t.pieces, n - 1)
         IN concat_pieces(t, n - 1) \o
            slice(source_text(t, piece), piece.start, piece.start + piece.length)

DocText(t) == concat_pieces(t, Len(t.pieces))

RECURSIVE sum_lengths(_, _)
sum_lengths(pieces, n) ==
    IF n = 0 THEN 0 ELSE sum_lengths(pieces, n - 1) + pieces[n].length

RECURSIVE sum_line_breaks(_, _)
sum_line_breaks(pieces, n) ==
    IF n = 0 THEN 0 ELSE sum_line_breaks(pieces, n - 1) + pieces[n].line_breaks

Text(t) == get_text(t, 0, len(t))

\* ------------------------------------------------------------- claims

\* C1: after every call the whole text read with get_text(0, len()) is the
\* reference string, i.e. the initial text with exactly the successful
\* inserts and deletes applied by plain string splicing.
C1_RoundTrip == Text(table) = reference

C1_Witness ==
    /\ last.op = "delete" /\ last.res = "ok" /\ last.length > 0
    /\ Len(table.add_buffer) > 0
    /\ Len(table.pieces) >= 2
    /\ reference # table.original
    /\ reference # <<>>

\* C2: total_length is the sum of the lengths of the pieces and the length
\* of the text read with get_text(0, total_length).
C2_LengthInvariant ==
    /\ table.total_length = sum_lengths(table.pieces, Len(table.pieces))
    /\ table.total_length = Len(get_text(table, 0, table.total_length))

C2_Witness ==
    /\ last.op = "delete" /\ last.res = "ok" /\ last.length >= 2
    /\ Len(last.pre.pieces) >= 3
    /\ table.total_length >= 1

\* C3: lines() - 1 is the number of newlines of the document and the sum of
\* the pieces' line_breaks; an empty piece list has lines() = 1.
C3_LineCountInvariant ==
    /\ lines(table) - 1 = count_line_breaks(DocText(table))
    /\ lines(table) - 1 = count_line_breaks(Text(table))
    /\ lines(table) - 1 = sum_line_breaks(table.pieces, Len(table.pieces))
    /\ table.pieces = <<>> => lines(table) = 1

C3_Witness ==
    /\ last.op = "delete" /\ last.res = "ok"
    /\ count_line_breaks(get_text(last.pre, last.offset, last.length)) >= 1
    /\ lines(table) >= 2
    /\ Len(table.add_buffer) > 0

\* C4: insert returns Ok exactly when offset <= total_length; inserting ""
\* at 0 or at total_length succeeds and keeps total_length; an insert past
\* the end fails and changes nothing.
C4_InsertPrecondition ==
    last.op = "insert" =>
      /\ (last.res = "ok") <=> (last.offset <= last.pre.total_length)
      /\ (last.text = <<>> /\ last.offset \in {0, last.pre.total_length}) =>
            (last.res = "ok" /\ table.total_length = last.pre.total_length)
      /\ last.offset > last.pre.total_length =>
            /\ last.res = "err"
            /\ table.pieces = last.pre.pieces
            /\ table.add_buffer = last.pre.add_buffer
            /\ table.total_length = last.pre.total_length
            /\ table.total_lines = last.pre.total_lines

C4_Witness ==
    /\ last.op = "insert" /\ last.res = "err"
    /\ last.offset = last.pre.total_length + 1
    /\ last.text # <<>>
    /\ Len(last.pre.add_buffer) > 0

\* C5: a delete whose range ends past the document fails and leaves the
\* pieces, both buffers, total_length and total_lines as they were.
C5_DeleteOutOfRange ==
    (last.op = "delete" /\ last.offset + last.length > last.pre.total_length) =>
      /\ last.res = "err"
      /\ table.pieces = last.pre.pieces
      /\ table.original = last.pre.original
      /\ table.add_buffer = last.pre.add_buffer
      /\ table.total_length = last.pre.total_length
      /\ table.total_lines = last.pre.total_lines

C5_Witness ==
    /\ last.op = "delete" /\ last.res = "err"
    /\ last.offset < last.pre.total_length
    /\ last.offset + last.length = last.pre.total_length + 1
    /\ Len(last.pre.pieces) >= 2

\* C6: every delete whose range lies within the document returns Ok,
\* zero-length deletes and the empty document included.
C6_DeleteInRangeOk ==
    (last.op = "delete" /\ last.offset + last.length <= last.pre.total_length) =>
      last.res = "ok"

\* C7 (as claimed): a zero-length delete at a valid offset leaves the piece
\* list, the add buffer, total_length and total_lines unchanged.
C7_ZeroDeleteKeepsPieces ==
    (last.op = "delete" /\ last.length = 0 /\ last.offset <= last.pre.total_length) =>
      /\ table.pieces = last.pre.pieces
      /\ table.add_buffer = last.pre.add_buffer
      /\ table.total_length = last.pre.total_length
      /\ table.total_lines = last.pre.total_lines

\* C7 (amended): a zero-length delete at a valid offset leaves the document
\* text, len(), lines() and both buffers unchanged; the piece list may be
\* split or coalesced at the offset.
C7_ZeroDeleteKeepsText ==
    (last.op = "delete" /\ last.length = 0 /\ last.offset <= last.pre.total_length) =>
      /\ Text(table) = Text(last.pre)
      /\ DocText(table) = DocText(last.pre)
      /\ len(table) = len(last.pre)
      /\ lines(table) = lines(last.pre)
      /\ table.add_buffer = last.pre.add_buffer
      /\ table.original = last.pre.original

C7_Witness ==
    /\ last.op = "delete" /\ last.length = 0 /\ last.res = "ok"
    /\ last.offset > 0 /\ last.offset < last.pre.total_length
    /\ table.pieces # last.pre.pieces
    /\ Len(table.pieces) = Len(last.pre.pieces) + 1

\* C8: a call that returns Err leaves the whole Table (pieces, buffers,
\* totals and cache-dirty markers) as it was before the call.
C8_ErrLeavesTable == last.res = "err" => table = last.pre

C8_Witness ==
    /\ last.op = "delete" /\ last.res = "err"
    /\ last.offset + last.length <= last.pre.total_length
    /\ last.pre.line_cache_dirty
    /\ Len(last.pre.pieces) >= 2

\* C9: insert(O, S) followed by delete(O, len(S)) restores the text, len()
\* and lines() of the Table before the insert.
C9_InsertDeleteInverse ==
    last.undo.is =>
      /\ Text(table) = last.undo.text
      /\ len(table) = last.undo.len
      /\ lines(table) = last.undo.lines

C9_Witness ==
    /\ last.undo.is /\ last.res = "ok" /\ last.length > 0
    /\ Len(last.pre.pieces) >= 3
    /\ last.undo.len >= 2

\* C10: get_text(start, length) is the bytes [start, start+length) of the
\* concatenation of the pieces when the range lies in the document, and the
\* empty string when it does not.
C10_GetText ==
    \A start \in 0..(table.total_length + 1), length \in 0..(table.total_length + 1) :
        get_text(table, start, length) =
            IF start + length <= table.total_length
            THEN SubSeq(DocText(table), start + 1, start + length)
            ELSE <<>>

C10_Witness ==
    /\ Len(table.pieces) >= 3
    /\ \A i \in 1..Len(table.pieces) : table.pieces[i].length > 0
    /\ \E i \in 1..(Len(table.pieces) - 1) : table.pieces[i].source # table.pieces[i + 1].source
    /\ get_text(table, 1, table.total_length - 1) # <<>>

\* ------------------------------------------- positions, by definition
\* The offset at which the line holding offset o starts.
TrueLineStart(doc, o) ==
    LET nls == {j \in 1..o : doc[j] = NL}
    IN IF nls = {} THEN 0 ELSE CHOOSE j \in nls : \A k \in nls : k <= j

\* Line: newlines before o.  Column: bytes from the start of that line.
TruePosition(doc, o) ==
    Position(count_line_breaks(SubSeq(doc, 1, o)), o - TrueLineStart(doc, o))

\* C11: for every offset below total_length offset_to_position returns the
\* number of newlines before the offset and the byte distance to the start
\* of its line, whatever the number of pieces.
C11_OffsetToPosition ==
    \A offset \in 0..(table.total_length - 1) :
        offset_to_position(table, offset) = TruePosition(DocText(table), offset)

\* C12: an offset beyond the end of the document gives the position of the
\* end of the document, offset_to_position(total_length).
C12_BeyondEndIsEnd ==
    \A offset \in (table.total_length + 1)..(table.total_length + 2) :
        offset_to_position(table, offset) = offset_to_position(table, table.total_length)

\* C13: offset_to_position(total_length) is the end of the document: the
\* last line, and the number of bytes after the last newline as column.
C13_PositionAtEnd ==
    offset_to_position(table, table.total_length) =
        Position(lines(table) - 1,
                 table.total_length - TrueLineStart(DocText(table), table.total_length))

C13_Witness ==
    /\ Len(table.pieces) >= 3
    /\ lines(table) >= 2
    /\ table.total_length > TrueLineStart(DocText(table), table.total_length)
    /\ at(table.pieces, Len(table.pieces) - 1).line_breaks = 0
    /\ at(table.pieces, Len(table.pieces) - 1).length > 0

\* C14: position_to_offset(offset_to_position(o)) = o for every offset o
\* of the document, the end included.
C14_OffsetRoundTrip ==
    \A o \in 0..table.total_length :
        position_to_offset(table, offset_to_position(table, o)) = o

\* C15: position_to_offset gives the offset o of the character whose true
\* (line, byte column) is p; for a p that is the position of no offset it
\* gives total_length; it never gives more than total_length.
C15_PositionToOffset ==
    \A line \in 0..(table.total_length + 1), column \in 0..(table.total_length + 1) :
        /\ position_to_offset(table, Position(line, column)) <= table.total_length
        /\ \A o \in 0..table.total_length :
              (/\ is_char_boundary(DocText(table), o)
               /\ TruePosition(DocText(table), o) = Position(line, column))
                 => position_to_offset(table, Position(line, column)) = o
        /\ (\A o \in 0..table.total_length :
               TruePosition(DocText(table), o) # Position(line, column))
             => position_to_offset(table, Position(line, column)) = table.total_length

\* C16: a delete that returns Ok and leaves total_length = 0 leaves len() = 0,
\* lines() = 1 and the empty text; insert(0, t) right after it returns Ok and
\* the document is t, with 1 + (newlines of t) lines.
C16_EmptyDocument ==
    /\ (last.op = "delete" /\ last.res = "ok" /\ table.total_length = 0)
          => /\ len(table) = 0
             /\ lines(table) = 1
             /\ get_text(table, 0, len(table)) = <<>>
    /\ (/\ last.op = "insert"
        /\ last.offset = 0
        /\ last.prev = [op |-> "delete", res |-> "ok"]
        /\ last.pre.total_length = 0)
          => /\ last.res = "ok"
             /\ get_text(table, 0, len(table)) = last.text
             /\ DocText(table) = last.text
             /\ lines(table) = 1 + count_line_breaks(last.text)

\* The insert follows a delete that emptied the document and left a piece
\* of length zero behind.
C16_Witness ==
    /\ last.op = "insert"
    /\ last.offset = 0
    /\ last.text = <<NL>>
    /\ last.prev = [op |-> "delete", res |-> "ok"]
    /\ last.pre.total_length = 0
    /\ last.pre.pieces # <<>>
    /\ lines(table) = 2

\* C17: no call aborts: insert and delete return Ok or Err, the queries
\* return a value.
C17_NoAbort == last.res # "panic"

\* C18: original is the text given to new; a successful insert appends its
\* text to add_buffer; every other call leaves add_buffer as it was.
C18_BuffersAppendOnly ==
    /\ table.original = last.pre.original
    /\ last.op = "new" => table.original = last.text /\ table.add_buffer = <<>>
    /\ (last.op = "insert" /\ last.res = "ok")
          => table.add_buffer = last.pre.add_buffer \o last.text
    /\ (last.op # "new" /\ ~(last.op = "insert" /\ last.res = "ok"))
          => table.add_buffer = last.pre.add_buffer

\* A delete removed the last piece over a non-empty add_buffer.
C18_Witness ==
    /\ last.op = "delete"
    /\ last.res = "ok"
    /\ table.pieces = <<>>
    /\ table.add_buffer # <<>>
    /\ \E i \in 1..Len(last.pre.pieces) : last.pre.pieces[i].source = "Add"

\* The buffers other than buffer_id are the Tables they were before the
\* command, and no buffer came or went.
OtherBuffersKept(buffer_id) ==
    /\ DOMAIN state.buffers = DOMAIN cmd.pre.buffers
    /\ \A b \in DOMAIN state.buffers \ {buffer_id} : state.buffers[b] = cmd.pre.buffers[b]

\* C19: InsertText and DeleteText on an existing buffer make one Table.insert
\* or Table.delete call with the command's arguments on that buffer, touch
\* no other buffer, and leave the buffer's modified flag set when the call
\* returns Ok.
C19_EditDispatch ==
    /\ (/\ cmd.command.type = "InsertText"
        /\ contains_key(cmd.pre.buffers, cmd.command.buffer_id))
          => /\ state.buffers[cmd.command.buffer_id] =
                   insert(cmd.pre.buffers[cmd.command.buffer_id], cmd.command.offset,
                          cmd.command.text).t
             /\ cmd.res = insert(cmd.pre.buffers[cmd.command.buffer_id],
                                 cmd.command.offset, cmd.command.text).res
             /\ OtherBuffersKept(cmd.command.buffer_id)
             /\ cmd.res = "ok"
                  => /\ state.buffer_metadata[cmd.command.buffer_id].modified
                     /\ get_buffer_text(state, cmd.command.buffer_id) =
                           Some(str_insert(DocText(cmd.pre.buffers[cmd.command.buffer_id]),
                                           cmd.command.offset, cmd.command.text))
    /\ (/\ cmd.command.type = "DeleteText"
        /\ contains_key(cmd.pre.buffers, cmd.command.buffer_id))
          => /\ state.buffers[cmd.command.buffer_id] =
                   delete(cmd.pre.buffers[cmd.command.buffer_id], cmd.command.start,
                          cmd.command.length).t
             /\ cmd.res = delete(cmd.pre.buffers[cmd.command.buffer_id],
                                 cmd.command.start, cmd.command.length).res
             /\ OtherBuffersKept(cmd.command.buffer_id)
             /\ cmd.res = "ok"
                  => /\ state.buffer_metadata[cmd.command.buffer_id].modified
                     /\ get_buffer_text(state, cmd.command.buffer_id) =
                           Some(str_delete(DocText(cmd.pre.buffers[cmd.command.buffer_id]),
                                           cmd.command.start, cmd.command.length))

\* An InsertText that returned Ok on a buffer that was not modified, with a
\* second buffer present.
C19_Witness ==
    /\ cmd.command.type = "InsertText"
    /\ cmd.res = "ok"
    /\ contains_key(cmd.pre.buffers, cmd.command.buffer_id)
    /\ cmd.command.text # <<>>
    /\ cmd.command.offset > 0
    /\ ~cmd.pre.buffer_metadata[cmd.command.buffer_id].modified
    /\ state.buffer_metadata[cmd.command.buffer_id].modified
    /\ DOMAIN state.buffers = BufferIds

\* C20: MoveCursor on an existing buffer sets its cursor position and clears
\* its selection; SetSelection sets the selection to Some(range) and keeps
\* the position; neither changes the cursor of another buffer.
C20_CursorCommands ==
    /\ (/\ cmd.command.type = "MoveCursor"
        /\ contains_key(cmd.pre.cursors, cmd.command.buffer_id))
          => /\ state.cursors[cmd.command.buffer_id].position = cmd.command.position
             /\ state.cursors[cmd.command.buffer_id].selection = None
    /\ (/\ cmd.command.type = "SetSelection"
        /\ contains_key(cmd.pre.cursors, cmd.command.buffer_id))
          => /\ state.cursors[cmd.command.buffer_id].selection = Some(cmd.command.range)
             /\ state.cursors[cmd.command.buffer_id].position =
                   cmd.pre.cursors[cmd.command.buffer_id].position
    /\ cmd.command.type \in {"MoveCursor", "SetSelection"}
          => /\ DOMAIN state.cursors = DOMAIN cmd.pre.cursors
             /\ \A b \in DOMAIN state.cursors \ {cmd.command.buffer_id} :
                   state.cursors[b] = cmd.pre.cursors[b]

\* A MoveCursor on a buffer that had a selection, with a second buffer
\* present.
C20_Witness ==
    /\ cmd.command.type = "MoveCursor"
    /\ contains_key(cmd.pre.cursors, cmd.command.buffer_id)
    /\ cmd.pre.cursors[cmd.command.buffer_id].selection # None
    /\ cmd.command.position # cmd.pre.cursors[cmd.command.buffer_id].position
    /\ DOMAIN state.cursors = BufferIds

\* C24: every piece lies inside the backing buffer its source names.
C24_PieceBounds ==
    \A i \in 1..Len(table.pieces) :
        table.pieces[i].start + table.pieces[i].length
            <= Len(source_text(table, table.pieces[i]))

\* A Table of several pieces, one of them made by a split or a deletion
\* inside an Add piece that ends before the end of add_buffer.
C24_Witness ==
    /\ Len(table.pieces) >= 3
    /\ \E i \in 1..Len(table.pieces) :
          /\ table.pieces[i].source = "Add"
          /\ table.pieces[i].length > 0
          /\ table.pieces[i].start + table.pieces[i].length < Len(table.add_buffer)
    /\ \E i \in 1..Len(table.pieces) :
          /\ table.pieces[i].source = "Original"
          /\ table.pieces[i].start > 0
          /\ table.pieces[i].start + table.pieces[i].length = Len(table.original)

\* C25: the cached line_breaks of every piece is the number of newlines in
\* the bytes [start, start + length) of its backing buffer.
C25_CachedLineBreaks ==
    \A i \in 1..Len(table.pieces) :
        table.pieces[i].line_breaks =
            count_line_breaks(slice(source_text(table, table.pieces[i]),
                                    table.pieces[i].start,
                                    table.pieces[i].start + table.pieces[i].length))

\* A delete that left a piece with a newline in it next to the deletion.
C25_Witness ==
    /\ last.op = "delete"
    /\ last.res = "ok"
    /\ last.length > 0
    /\ Len(table.pieces) >= 2
    /\ \E i \in 1..Len(table.pieces) :
          /\ table.pieces[i].line_breaks > 0
          /\ table.pieces[i] \notin {last.pre.pieces[k] : k \in 1..Len(last.pre.pieces)}

\* C26: two distinct pieces of the same source share no byte of it.
C26_NoOverlap ==
    \A i \in 1..Len(table.pieces), j \in 1..Len(table.pieces) :
        (i < j /\ table.pieces[i].source = table.pieces[j].source)
          => \/ table.pieces[i].length = 0
             \/ table.pieces[j].length = 0
             \/ table.pieces[i].start + table.pieces[i].length <= table.pieces[j].start
             \/ table.pieces[j].start + table.pieces[j].length <= table.pieces[i].start

\* Two non-empty pieces of the original buffer and two of the add buffer.
C26_Witness ==
    /\ \E i \in 1..Len(table.pieces), j \in 1..Len(table.pieces) :
          /\ i < j
          /\ table.pieces[i].source = "Original" /\ table.pieces[j].source = "Original"
          /\ table.pieces[i].length > 0 /\ table.pieces[j].length > 0
    /\ \E i \in 1..Len(table.pieces) :
          table.pieces[i].source = "Add" /\ table.pieces[i].length > 0

\* C22: when a successful insert of non-empty text returns, the piece it
\* made does not stand right after an Add piece that ends where it starts:
\* the two are one piece.
C22_CoalescedAfterInsert ==
    (last.op = "insert" /\ last.res = "ok" /\ last.text # <<>>)
      => ~ \E i \in 1..(Len(table.pieces) - 1) :
              /\ table.pieces[i + 1] = new_piece(last.pre, last.text)
              /\ table.pieces[i].source = "Add"
              /\ table.pieces[i].start + table.pieces[i].length = table.pieces[i + 1].start

\* C30: after a successful insert or delete the caches are marked dirty from
\* the least edited offset: line_cache_dirty is set and char_cache_dirty_from
\* is at most the offset of this edit and at most the marker left by the
\* edits before it (usize::MAX when the caches were clean).
C30_DirtyFromEarliestEdit ==
    (last.op \in {"insert", "delete"} /\ last.res = "ok")
      => /\ table.line_cache_dirty
         /\ table.char_cache_dirty_from <= last.offset
         /\ table.char_cache_dirty_from <= last.pre.char_cache_dirty_from

\* C23: during a run of consecutive inserts of non-empty text, each placed
\* right after the text of the one before, the piece list never has more
\* than n + 2 pieces, n being the number of pieces when the run started.
C23_BoundedGrowth == run.len > 0 => Len(table.pieces) <= run.n + 2

\* A run of MaxRun inserts that started inside a piece and holds n + 2.
C23_Witness ==
    /\ run.len = MaxRun
    /\ run.n >= 2
    /\ Len(table.pieces) = run.n + 2

\* C21: the modified flag of a buffer is false after its creation and after
\* a SaveBuffer on it, which sets file_path; in every State it is true
\* exactly when an InsertText or DeleteText on the buffer has returned Ok
\* since the buffer was created or last saved.
C21_ModifiedFlag ==
    /\ \A b \in DOMAIN state.buffer_metadata :
          state.buffer_metadata[b].modified = cmd.history.edited[b]
    /\ cmd.command.type = "NewBuffer"
          => \A b \in DOMAIN state.buffers \ DOMAIN cmd.pre.buffers :
                ~state.buffer_metadata[b].modified
    /\ (/\ cmd.command.type = "SaveBuffer"
        /\ contains_key(cmd.pre.buffer_metadata, cmd.command.buffer_id))
          => /\ ~state.buffer_metadata[cmd.command.buffer_id].modified
             /\ state.buffer_metadata[cmd.command.buffer_id].file_path =
                   Some(cmd.command.file_path)

\* A buffer edited, saved and edited again, the last edit failing.
C21_Witness ==
    /\ cmd.command.type \in {"InsertText", "DeleteText"}
    /\ cmd.res = "err"
    /\ contains_key(state.buffer_metadata, cmd.command.buffer_id)
    /\ state.buffer_metadata[cmd.command.buffer_id].file_path # None
    /\ ~state.buffer_metadata[cmd.command.buffer_id].modified
    /\ state.buffers[cmd.command.buffer_id].add_buffer # <<>>

\* The text, the length and the line count of buffer b are what they were
\* before the command.
SameDocument(b) ==
    /\ get_buffer_text(state, b) = get_buffer_text(cmd.pre, b)
    /\ len(state.buffers[b]) = len(cmd.pre.buffers[b])
    /\ lines(state.buffers[b]) = lines(cmd.pre.buffers[b])

\* C27: MoveCursor, SetSelection and SaveBuffer leave the text, the length
\* and the line count of every buffer as they were; NewBuffer leaves every
\* buffer that existed before it so.
C27_NonEditFrame ==
    /\ cmd.command.type \in {"MoveCursor", "SetSelection", "SaveBuffer"}
          => /\ DOMAIN state.buffers = DOMAIN cmd.pre.buffers
             /\ \A b \in DOMAIN state.buffers : SameDocument(b)
    /\ cmd.command.type = "NewBuffer"
          => /\ DOMAIN cmd.pre.buffers \subseteq DOMAIN state.buffers
             /\ \A b \in DOMAIN cmd.pre.buffers : SameDocument(b)

\* A NewBuffer next to a buffer whose text an edit has changed.
C27_Witness ==
    /\ cmd.command.type = "NewBuffer"
    /\ \E b \in DOMAIN cmd.pre.buffers :
          /\ cmd.pre.buffer_metadata[b].modified
          /\ cmd.pre.buffers[b].total_length > 0
          /\ Len(cmd.pre.buffers[b].pieces) >= 2
    /\ DOMAIN state.buffers = BufferIds

\* C28: when the Table call of an InsertText or DeleteText on an existing
\* buffer fails, execute_command returns Err and the State is left as it
\* was: the buffer's text, modified flag and cursor, and every other buffer.
C28_FailedEdit ==
    /\ (/\ cmd.command.type = "InsertText"
        /\ contains_key(cmd.pre.buffers, cmd.command.buffer_id)
        /\ insert(cmd.pre.buffers[cmd.command.buffer_id], cmd.command.offset,
                  cmd.command.text).res = "err")
          => cmd.res = "err"
    /\ (/\ cmd.command.type = "DeleteText"
        /\ contains_key(cmd.pre.buffers, cmd.command.buffer_id)
        /\ delete(cmd.pre.buffers[cmd.command.buffer_id], cmd.command.start,
                  cmd.command.length).res = "err")
          => cmd.res = "err"
    /\ cmd.res = "err"
          => /\ cmd.command.type \in {"InsertText", "DeleteText"}
             /\ get_buffer_text(state, cmd.command.buffer_id) =
                   get_buffer_text(cmd.pre, cmd.command.buffer_id)
             /\ state.buffer_metadata = cmd.pre.buffer_metadata
             /\ state.cursors = cmd.pre.cursors
             /\ state.buffers = cmd.pre.buffers

\* A DeleteText that fails on an unmodified buffer with a moved cursor, next
\* to a second buffer.
C28_Witness ==
    /\ cmd.command.type = "DeleteText"
    /\ cmd.res = "err"
    /\ ~state.buffer_metadata[cmd.command.buffer_id].modified
    /\ state.cursors[cmd.command.buffer_id].position # Position(0, 0)
    /\ DOMAIN state.buffers = BufferIds

\* C29: the five maps of a State have the same keys, every cursor names its
\* own buffer, and active_buffer is None while no buffer exists and the
\* first buffer ever created from then on.
C29_RegistryConsistency ==
    /\ DOMAIN state.buffer_metadata = DOMAIN state.buffers
    /\ DOMAIN state.cursors = DOMAIN state.buffers
    /\ DOMAIN state.undo_stack = DOMAIN state.buffers
    /\ DOMAIN state.redo_stack = DOMAIN state.buffers
    /\ \A b \in DOMAIN state.cursors : state.cursors[b].buffer_id = b
    /\ DOMAIN state.buffers = {} => state.active_buffer = None
    /\ DOMAIN state.buffers # {}
          => state.active_buffer # None /\ state.active_buffer = cmd.history.first

\* Two buffers, and commands on the second one after its creation.
C29_Witness ==
    /\ DOMAIN state.buffers = BufferIds
    /\ cmd.command.type = "SaveBuffer"
    /\ contains_key(state.buffers, cmd.command.buffer_id)
    /\ state.active_buffer # Some(cmd.command.buffer_id)
    /\ state.buffer_metadata[cmd.command.buffer_id].created_at > 0

====
